---- MODULE Spec2Model ----
(***************************************************************************)
(* A model of heic_converter.c: the batch driver (main), the per-file      *)
(* conversion (convert_heic_to_jpg), its resource cleanup                  *)
(* (cleanup_context) and the extension filter (has_heic_extension).        *)
(*                                                                         *)
(* C strings are sequences of one-character strings.  The two codec        *)
(* libraries are modelled by their outcomes: libheif returns an error code *)
(* that the code tests; libjpeg, set up with jpeg_std_error, reports a     *)
(* failure by calling error_exit, which destroys the JPEG object and calls *)
(* exit(EXIT_FAILURE).                                                     *)
(***************************************************************************)
EXTENDS Integers, Sequences, FiniteSets, TLC

(***************************************************************************)
(* Bounds of the model.                                                    *)
(***************************************************************************)
\* environment failures (mkdir, opendir, closedir, allocation, fopen,
\* libjpeg errors) that may happen in one execution
MaxFaults == 1
\* longest file name drawn for the extension filter
MaxNameLen == 6
\* how many times the batch is run in SpecTwice
MaxRuns == 2

(***************************************************************************)
(* Program constants.                                                      *)
(***************************************************************************)
MAX_PATH == 1024
EXIT_FAILURE == 1
EOF == -1

NULL == <<>>

(***************************************************************************)
(* <string.h>, <strings.h>, <ctype.h>, <stdio.h> as the code uses them.    *)
(***************************************************************************)
Max(S) == CHOOSE m \in S : \A x \in S : x <= m

Min2(a, b) == IF a <= b THEN a ELSE b

\* strrchr: the position of the last c in s, 0 for the null pointer
strrchr(s, c) ==
    LET I == {i \in 1..Len(s) : s[i] = c}
    IN  IF I = {} THEN 0 ELSE Max(I)

tolower(c) ==
    CASE c = "H" -> "h"
      [] c = "E" -> "e"
      [] c = "I" -> "i"
      [] c = "C" -> "c"
      [] c = "P" -> "p"
      [] OTHER -> c

\* strcasecmp: 0 when the strings are equal ignoring case; the sign of a
\* difference is not used by the code and is given as 1 or -1 by length
RECURSIVE strcasecmp(_, _)
strcasecmp(a, b) ==
    IF a = <<>> /\ b = <<>> THEN 0
    ELSE IF a = <<>> THEN -1
    ELSE IF b = <<>> THEN 1
    ELSE IF tolower(Head(a)) = tolower(Head(b)) THEN strcasecmp(Tail(a), Tail(b))
    ELSE 1

\* snprintf(buf, size, ...): the formatted text cut to size - 1 characters
snprintf(size, text) == SubSeq(text, 1, Min2(Len(text), size - 1))

DotHEIC == <<".", "H", "E", "I", "C">>
DotJpg == <<".", "j", "p", "g">>
Slash == <<"/">>

has_heic_extension_strcmp(filename) ==
    LET ext == strrchr(filename, ".")
    IN  IF ext = 0 THEN 0
        ELSE IF SubSeq(filename, ext, Len(filename)) = DotHEIC THEN 1 ELSE 0

has_heic_extension(filename) ==
    LET ext == strrchr(filename, ".")
    IN  IF ext = 0 THEN 0
        ELSE IF strcasecmp(SubSeq(filename, ext, Len(filename)), DotHEIC) = 0
             THEN 1 ELSE 0

input_dir == <<"P", "h", "o", "t", "o", "s">>
output_dir == <<"o", "u", "t", "p", "u", "t">>

\* main's snprintf(input_path, sizeof(input_path), "%s/%s", input_dir, d_name)
InputPath(d_name) == snprintf(MAX_PATH, input_dir \o Slash \o d_name)

\* convert_heic_to_jpg's output file name: the base name of input_path up to
\* its last '.', after out_dir and '/', followed by ".jpg".  The code is only
\* entered with a base name that holds a '.', so the pointer difference is
\* defined; without one the whole base name is taken here.
OutputFilename(path, out_dir) ==
    LET sl == strrchr(path, "/")
        base_name == IF sl = 0 THEN path ELSE SubSeq(path, sl + 1, Len(path))
        dot == strrchr(base_name, ".")
        prec == IF dot = 0 THEN Len(base_name) ELSE dot - 1
    IN  snprintf(MAX_PATH, out_dir \o Slash \o SubSeq(base_name, 1, prec) \o DotJpg)

Reverse(s) == [i \in 1..Len(s) |-> s[Len(s) + 1 - i]]

Range(s) == {s[i] : i \in 1..Len(s)}

(***************************************************************************)
(* The inputs: directory entries, file contents, what is typed.            *)
(***************************************************************************)
N_aHEIC == <<"a", ".", "H", "E", "I", "C">>
N_aheic == <<"a", ".", "h", "e", "i", "c">>
N_bheic == <<"b", ".", "h", "e", "i", "c">>
N_ctxt == <<"c", ".", "t", "x", "t">>

DirNames == {N_aHEIC, N_aheic, N_bheic, N_ctxt}

\* What a file of the input directory holds: "bad" is not a HEIC container,
\* "noprimary" a container without primary image, "undecodable" one whose
\* primary image does not decode, "img1"/"img2" two different pictures.
FileKinds(n) ==
    CASE n = N_aHEIC -> {"img1", "bad"}
      [] n = N_aheic -> {"img2", "noprimary"}
      [] n = N_bheic -> {"img1", "undecodable"}
      [] OTHER -> {"other"}

\* the decoded raster of a picture (interleaved RGB): its size
Raster(k) ==
    IF k = "img1" THEN [id |-> "img1", width |-> 2, height |-> 1]
    ELSE [id |-> "img2", width |-> 1, height |-> 2]

NoImage == [id |-> "none", width |-> 0, height |-> 0]

\* heif_context_read_from_file, heif_context_get_primary_image_handle and
\* heif_decode_image: whether the error code is heif_error_Ok
heif_read_ok(k) == k \in {"noprimary", "undecodable", "img1", "img2"}
heif_handle_ok(k) == k \in {"undecodable", "img1", "img2"}
heif_decode_ok(k) == k \in {"img1", "img2"}

\* the test the code applies to each heif_error: .code != heif_error_Ok
HeifFailedNever(ok) == FALSE
HeifFailed(ok) == ~ok

\* What is typed at the prompt.
Typed ==
    {[k |-> "text", v |-> 0], [k |-> "eof", v |-> 0], [k |-> "overflow", v |-> 0]}
    \cup {[k |-> "int", v |-> n] : n \in {0, 1, 101}}

\* scanf("%d", &jpeg_quality): <<return value, stored?, value stored>>.  A
\* number that does not fit an int is undefined behaviour: any int is stored.
ScanfResults(t) ==
    CASE t.k = "text" -> {<<0, FALSE, 0>>}
      [] t.k = "eof" -> {<<EOF, FALSE, 0>>}
      [] t.k = "int" -> {<<1, TRUE, t.v>>}
      [] OTHER -> {<<1, TRUE, v>> : v \in {-1, 100}}

\* the indeterminate value of the uninitialized local jpeg_quality
Indeterminate == {0, 50}

QualityInvalidLow(ret, q) == ret # 1 \/ q < 0 \/ q > 100
QualityInvalid(ret, q) == ret # 1 \/ q < 1 \/ q > 100

\* main's return !success
ExitStatusZero(s) == 0
ExitStatus(s) == IF s = 0 THEN 1 ELSE 0

(***************************************************************************)
(* State.                                                                  *)
(***************************************************************************)
VARIABLES
    pc,              \* where the program is
    run,             \* which run of the batch this is
    typed,           \* what is typed at the prompt
    scan,            \* what scanf returned
    jpeg_quality,    \* main's jpeg_quality
    outDirExists,    \* whether "output" exists
    outFiles,        \* the files of "output": a set of [path, data]
    photos,          \* the files of "Photos": name -> kind
    dirp,            \* main's dir: "null", "open" or "closed"
    remaining,       \* the entries readdir has not returned yet
    entry,           \* the d_name readdir returned last
    input_path,      \* main's input_path
    ctx,             \* convert_heic_to_jpg's ConversionContext
    conv_success,    \* convert_heic_to_jpg's success
    files_processed, \* main's files_processed
    success,         \* main's success
    exitCode,        \* the process's exit code once pc = "exited"
    summary,         \* the summary line printed
    faultsLeft,      \* environment failures that may still happen
    env,             \* history: what the environment answered
    listing,         \* history: the entries in the order readdir gave them
    calls,           \* history: the calls of convert_heic_to_jpg of this run
    startOut,        \* history: "output" when this run started: [dir, files]
    xname,           \* a file name given to has_heic_extension
    xsel             \* what has_heic_extension returned for it (-1: not called)

progVars == <<pc, scan, jpeg_quality, dirp, remaining, entry, input_path, ctx,
              conv_success, files_processed, success, exitCode, summary>>
fsVars == <<outDirExists, outFiles, photos>>
histVars == <<env, listing, calls>>
extVars == <<xname, xsel>>
vars == <<progVars, fsVars, histVars, extVars, run, typed, faultsLeft, startOut>>

\* ConversionContext ctx = {0}
ZeroCtx ==
    [ctx |-> FALSE, handle |-> FALSE, img |-> NoImage, outfile |-> NULL,
     cinfo |-> [created |-> FALSE, image_width |-> 0, image_height |-> 0,
                next_scanline |-> 0]]

NoSummary == [kind |-> "none", n |-> 0]
NoEnv == [ensure |-> "unset", opendir |-> "unset", closedir |-> "unset", fatal |-> FALSE]
NoScan == [done |-> FALSE, ret |-> 0, stored |-> FALSE]

\* the content of a file of "output": which raster was encoded at which
\* quality, the size the header declares, the rows written, whether the
\* stream was finished
EmptyFile == [src |-> "none", q |-> 0, w |-> 0, h |-> 0, rows |-> 0, fin |-> FALSE]
StaleFile == [src |-> "stale", q |-> 0, w |-> 0, h |-> 0, rows |-> 0, fin |-> TRUE]

WriteFile(fs, p, d) == {f \in fs : f.path # p} \cup {[path |-> p, data |-> d]}
FileData(fs, p) == (CHOOSE f \in fs : f.path = p).data
Paths(fs) == {f.path : f \in fs}

\* the directories a run may start from
PhotoDirs ==
    UNION {[D -> {"img1", "img2", "bad", "noprimary", "undecodable", "other"}]
              : D \in SUBSET DirNames}
InitialPhotos == {f \in PhotoDirs : \A n \in DOMAIN f : f[n] \in FileKinds(n)}

InitialOutputs ==
    {<<FALSE, {}>>,
     <<TRUE, {}>>,
     <<TRUE, {[path |-> OutputFilename(InputPath(N_aHEIC), output_dir), data |-> StaleFile]}>>}

ProgramStart ==
    /\ pc = "prompt"
    /\ scan = NoScan
    /\ jpeg_quality \in Indeterminate
    /\ dirp = "null"
    /\ remaining = {}
    /\ entry = NULL
    /\ input_path = NULL
    /\ ctx = ZeroCtx
    /\ conv_success = 0
    /\ files_processed = 0
    /\ success = 0
    /\ exitCode = 0
    /\ summary = NoSummary
    /\ env = NoEnv
    /\ listing = <<>>
    /\ calls = <<>>

InitWith(inputs, faults) ==
    /\ ProgramStart
    /\ run = 1
    /\ typed \in inputs
    /\ \E o \in InitialOutputs : outDirExists = o[1] /\ outFiles = o[2]
    /\ startOut = [dir |-> outDirExists, files |-> outFiles]
    /\ photos \in InitialPhotos
    /\ faultsLeft = faults
    /\ xname = NULL
    /\ xsel = -1

Init == InitWith(Typed, MaxFaults)

\* the answers the environment may give to a call that can fail
Outcomes == IF faultsLeft > 0 THEN {TRUE, FALSE} ELSE {TRUE}
Charge(ok) == faultsLeft' = IF ok THEN faultsLeft ELSE faultsLeft - 1

(***************************************************************************)
(* main                                                                    *)
(***************************************************************************)
Prompt ==
    /\ pc = "prompt"
    /\ \E r \in ScanfResults(typed) :
          LET q == IF r[2] THEN r[3] ELSE jpeg_quality
          IN  /\ scan' = [done |-> TRUE, ret |-> r[1], stored |-> r[2]]
              /\ jpeg_quality' = q
              /\ IF QualityInvalid(r[1], q)
                 THEN pc' = "exited" /\ exitCode' = 1
                 ELSE pc' = "ensure" /\ exitCode' = exitCode
    /\ UNCHANGED <<dirp, remaining, entry, input_path, ctx, conv_success,
                   files_processed, success, summary>>
    /\ UNCHANGED <<fsVars, histVars, extVars, run, typed, faultsLeft, startOut>>

\* ensure_directory(output_dir) and main's test of it
EnsureDirectory ==
    /\ pc = "ensure"
    /\ IF outDirExists
       THEN /\ pc' = "opendir"
            /\ env' = [env EXCEPT !.ensure = "exists"]
            /\ UNCHANGED <<outDirExists, exitCode, faultsLeft>>
       ELSE \E ok \in Outcomes :
              /\ Charge(ok)
              /\ IF ok
                 THEN /\ outDirExists' = TRUE
                      /\ pc' = "opendir"
                      /\ env' = [env EXCEPT !.ensure = "created"]
                      /\ UNCHANGED exitCode
                 ELSE /\ pc' = "exited"
                      /\ exitCode' = 1
                      /\ env' = [env EXCEPT !.ensure = "failed"]
                      /\ UNCHANGED outDirExists
    /\ UNCHANGED <<scan, jpeg_quality, dirp, remaining, entry, input_path, ctx,
                   conv_success, files_processed, success, summary>>
    /\ UNCHANGED <<outFiles, photos, listing, calls, extVars, run, typed, startOut>>

OpenDir ==
    /\ pc = "opendir"
    /\ \E ok \in Outcomes :
          /\ Charge(ok)
          /\ IF ok
             THEN /\ dirp' = "open"
                  /\ remaining' = DOMAIN photos
                  /\ pc' = "readdir"
                  /\ env' = [env EXCEPT !.opendir = "ok"]
                  /\ UNCHANGED exitCode
             ELSE /\ pc' = "exited"
                  /\ exitCode' = 1
                  /\ env' = [env EXCEPT !.opendir = "failed"]
                  /\ UNCHANGED <<dirp, remaining>>
    /\ UNCHANGED <<scan, jpeg_quality, entry, input_path, ctx, conv_success,
                   files_processed, success, summary>>
    /\ UNCHANGED <<fsVars, listing, calls, extVars, run, typed, startOut>>

NewCall(n, p) ==
    [name |-> n, path |-> p, quality |-> jpeg_quality, out |-> NULL,
     steps |-> <<>>, acq |-> <<>>, rel |-> <<>>, result |-> "running",
     before |-> outFiles, after |-> outFiles]

\* one turn of the loop: readdir, the extension test, the call of
\* convert_heic_to_jpg up to its first statement
ReadDir ==
    /\ pc = "readdir"
    /\ IF remaining = {}
       THEN /\ pc' = "closedir"
            /\ UNCHANGED <<remaining, entry, input_path, ctx, conv_success,
                           listing, calls>>
       ELSE \E n \in remaining :
              /\ remaining' = remaining \ {n}
              /\ entry' = n
              /\ listing' = Append(listing, n)
              /\ IF has_heic_extension(n) # 0
                 THEN /\ input_path' = InputPath(n)
                      /\ ctx' = ZeroCtx
                      /\ conv_success' = 0
                      /\ calls' = Append(calls, NewCall(n, InputPath(n)))
                      /\ pc' = "c_create"
                 ELSE /\ pc' = "readdir"
                      /\ UNCHANGED <<input_path, ctx, conv_success, calls>>
    /\ UNCHANGED <<scan, jpeg_quality, dirp, files_processed, success, exitCode,
                   summary>>
    /\ UNCHANGED <<fsVars, env, extVars, run, typed, faultsLeft, startOut>>

CloseDir ==
    /\ pc = "closedir"
    /\ \E ok \in Outcomes :
          /\ Charge(ok)
          /\ success' = IF ok THEN 1 ELSE success
          /\ env' = [env EXCEPT !.closedir = IF ok THEN "ok" ELSE "failed"]
    /\ dirp' = "closed"
    /\ pc' = "summary"
    /\ UNCHANGED <<scan, jpeg_quality, remaining, entry, input_path, ctx,
                   conv_success, files_processed, exitCode, summary>>
    /\ UNCHANGED <<fsVars, listing, calls, extVars, run, typed, startOut>>

\* the summary line and main's return
Summary ==
    /\ pc = "summary"
    /\ summary' = IF files_processed = 0
                  THEN [kind |-> "nofiles", n |-> 0]
                  ELSE [kind |-> "converted", n |-> files_processed]
    /\ exitCode' = ExitStatus(success)
    /\ pc' = "exited"
    /\ UNCHANGED <<scan, jpeg_quality, dirp, remaining, entry, input_path, ctx,
                   conv_success, files_processed, success>>
    /\ UNCHANGED <<fsVars, histVars, extVars, run, typed, faultsLeft, startOut>>

(***************************************************************************)
(* convert_heic_to_jpg                                                     *)
(***************************************************************************)
Cur == calls[Len(calls)]
SetCur(c) == [calls EXCEPT ![Len(calls)] = c]

Step(c, s, ok) == [c EXCEPT !.steps = Append(@, [step |-> s, ok |-> ok])]
Acquire(c, r) == [c EXCEPT !.acq = Append(@, r)]
Release(c, rs) == [c EXCEPT !.rel = @ \o rs]

\* the file the current call reads
CurKind == photos[entry]

\* libjpeg's error_exit as jpeg_std_error installs it: jpeg_destroy on the
\* JPEG object, then exit(EXIT_FAILURE); nothing of convert_heic_to_jpg runs
\* after it.  jpeg_destroy does nothing to an object that was not created.
JpegErrorExit(c) ==
    /\ ctx' = [ctx EXCEPT !.cinfo.created = FALSE]
    /\ calls' = SetCur(IF ctx.cinfo.created THEN Release(c, <<"cinfo">>) ELSE c)
    /\ env' = [env EXCEPT !.fatal = TRUE]
    /\ exitCode' = EXIT_FAILURE
    /\ pc' = "exited"

\* ctx.cinfo.err = jpeg_std_error(&ctx.jerr); jpeg_create_compress(&ctx.cinfo)
JpegCreate ==
    /\ pc = "c_create"
    /\ \E ok \in Outcomes :
          /\ Charge(ok)
          /\ IF ok
             THEN /\ ctx' = [ctx EXCEPT !.cinfo.created = TRUE]
                  /\ calls' = SetCur(Acquire(Cur, "cinfo"))
                  /\ pc' = "c_alloc"
                  /\ UNCHANGED <<env, exitCode>>
             ELSE JpegErrorExit(Step(Cur, "create", FALSE))
    /\ UNCHANGED <<scan, jpeg_quality, dirp, remaining, entry, input_path,
                   conv_success, files_processed, success, summary>>
    /\ UNCHANGED <<fsVars, listing, extVars, run, typed, startOut>>

\* heif_context_alloc
HeifAlloc ==
    /\ pc = "c_alloc"
    /\ \E ok \in Outcomes :
          /\ Charge(ok)
          /\ IF ok
             THEN /\ ctx' = [ctx EXCEPT !.ctx = TRUE]
                  /\ calls' = SetCur(Acquire(Step(Cur, "alloc", TRUE), "ctx"))
                  /\ pc' = "c_read"
             ELSE /\ calls' = SetCur(Step(Cur, "alloc", FALSE))
                  /\ pc' = "c_cleanup"
                  /\ UNCHANGED ctx
    /\ UNCHANGED <<scan, jpeg_quality, dirp, remaining, entry, input_path,
                   conv_success, files_processed, success, exitCode, summary>>
    /\ UNCHANGED <<fsVars, env, listing, extVars, run, typed, startOut>>

\* heif_context_read_from_file
HeifRead ==
    /\ pc = "c_read"
    /\ LET ok == heif_read_ok(CurKind)
       IN  /\ calls' = SetCur(Step(Cur, "read", ok))
           /\ pc' = IF HeifFailed(ok) THEN "c_cleanup" ELSE "c_handle"
    /\ UNCHANGED <<scan, jpeg_quality, dirp, remaining, entry, input_path, ctx,
                   conv_success, files_processed, success, exitCode, summary>>
    /\ UNCHANGED <<fsVars, env, listing, extVars, run, typed, faultsLeft, startOut>>

\* heif_context_get_primary_image_handle
HeifHandle ==
    /\ pc = "c_handle"
    /\ LET ok == heif_handle_ok(CurKind)
       IN  /\ calls' = SetCur(IF ok THEN Acquire(Step(Cur, "handle", ok), "handle")
                                   ELSE Step(Cur, "handle", ok))
           /\ ctx' = [ctx EXCEPT !.handle = ok]
           /\ pc' = IF HeifFailed(ok) THEN "c_cleanup" ELSE "c_decode"
    /\ UNCHANGED <<scan, jpeg_quality, dirp, remaining, entry, input_path,
                   conv_success, files_processed, success, exitCode, summary>>
    /\ UNCHANGED <<fsVars, env, listing, extVars, run, typed, faultsLeft, startOut>>

\* heif_decode_image, heif_image_get_plane_readonly
HeifDecode ==
    /\ pc = "c_decode"
    /\ LET ok == heif_decode_ok(CurKind)
       IN  /\ calls' = SetCur(IF ok THEN Acquire(Step(Cur, "decode", ok), "img")
                                   ELSE Step(Cur, "decode", ok))
           /\ ctx' = [ctx EXCEPT !.img = IF ok THEN Raster(CurKind) ELSE NoImage]
           /\ pc' = IF HeifFailed(ok) THEN "c_cleanup" ELSE "c_fopen"
    /\ UNCHANGED <<scan, jpeg_quality, dirp, remaining, entry, input_path,
                   conv_success, files_processed, success, exitCode, summary>>
    /\ UNCHANGED <<fsVars, env, listing, extVars, run, typed, faultsLeft, startOut>>

\* the output file name and fopen(output_filename, "wb"), which creates the
\* file or cuts it to nothing
OpenOutput ==
    /\ pc = "c_fopen"
    /\ LET name == OutputFilename(input_path, output_dir)
       IN  \E ok \in Outcomes :
             /\ Charge(ok)
             /\ IF ok
                THEN /\ outFiles' = WriteFile(outFiles, name, EmptyFile)
                     /\ ctx' = [ctx EXCEPT !.outfile = name]
                     /\ calls' = SetCur(Acquire(Step([Cur EXCEPT !.out = name],
                                                     "fopen", TRUE), "outfile"))
                     /\ pc' = "c_start"
                ELSE /\ calls' = SetCur(Step([Cur EXCEPT !.out = name], "fopen", FALSE))
                     /\ pc' = "c_cleanup"
                     /\ UNCHANGED <<outFiles, ctx>>
    /\ UNCHANGED <<scan, jpeg_quality, dirp, remaining, entry, input_path,
                   conv_success, files_processed, success, exitCode, summary>>
    /\ UNCHANGED <<outDirExists, photos, env, listing, extVars, run, typed, startOut>>

\* jpeg_stdio_dest, the image size taken from the decoded raster,
\* jpeg_set_defaults, jpeg_set_quality, jpeg_start_compress
JpegStart ==
    /\ pc = "c_start"
    /\ \E ok \in Outcomes :
          /\ Charge(ok)
          /\ IF ok
             THEN /\ ctx' = [ctx EXCEPT !.cinfo.image_width = ctx.img.width,
                                        !.cinfo.image_height = ctx.img.height,
                                        !.cinfo.next_scanline = 0]
                  /\ outFiles' = WriteFile(outFiles, ctx.outfile,
                                    [src |-> ctx.img.id, q |-> jpeg_quality,
                                     w |-> ctx.img.width, h |-> ctx.img.height,
                                     rows |-> 0, fin |-> FALSE])
                  /\ calls' = SetCur(Step(Cur, "start", TRUE))
                  /\ pc' = "c_write"
                  /\ UNCHANGED <<env, exitCode>>
             ELSE /\ JpegErrorExit(Step(Cur, "start", FALSE))
                  /\ UNCHANGED outFiles
    /\ UNCHANGED <<scan, jpeg_quality, dirp, remaining, entry, input_path,
                   conv_success, files_processed, success, summary>>
    /\ UNCHANGED <<outDirExists, photos, listing, extVars, run, typed, startOut>>

\* one turn of the scan line loop: jpeg_write_scanlines of one row
WriteScanline ==
    /\ pc = "c_write"
    /\ ctx.cinfo.next_scanline < ctx.cinfo.image_height
    /\ \E ok \in Outcomes :
          /\ Charge(ok)
          /\ IF ok
             THEN /\ ctx' = [ctx EXCEPT !.cinfo.next_scanline = @ + 1]
                  /\ outFiles' = WriteFile(outFiles, ctx.outfile,
                                    [FileData(outFiles, ctx.outfile)
                                       EXCEPT !.rows = @ + 1])
                  /\ calls' = SetCur(Step(Cur, "row", TRUE))
                  /\ pc' = "c_write"
                  /\ UNCHANGED <<env, exitCode>>
             ELSE /\ JpegErrorExit(Step(Cur, "row", FALSE))
                  /\ UNCHANGED outFiles
    /\ UNCHANGED <<scan, jpeg_quality, dirp, remaining, entry, input_path,
                   conv_success, files_processed, success, summary>>
    /\ UNCHANGED <<outDirExists, photos, listing, extVars, run, typed, startOut>>

\* the loop's exit, jpeg_finish_compress, success = 1
JpegFinish ==
    /\ pc = "c_write"
    /\ ~(ctx.cinfo.next_scanline < ctx.cinfo.image_height)
    /\ \E ok \in Outcomes :
          /\ Charge(ok)
          /\ IF ok
             THEN /\ outFiles' = WriteFile(outFiles, ctx.outfile,
                                    [FileData(outFiles, ctx.outfile)
                                       EXCEPT !.fin = TRUE])
                  /\ conv_success' = 1
                  /\ calls' = SetCur(Step(Cur, "finish", TRUE))
                  /\ pc' = "c_cleanup"
                  /\ UNCHANGED <<ctx, env, exitCode>>
             ELSE /\ JpegErrorExit(Step(Cur, "finish", FALSE))
                  /\ UNCHANGED <<outFiles, conv_success>>
    /\ UNCHANGED <<scan, jpeg_quality, dirp, remaining, entry, input_path,
                   files_processed, success, summary>>
    /\ UNCHANGED <<outDirExists, photos, listing, extVars, run, typed, startOut>>

\* cleanup_context: what it leaves of the context and what it releases, in
\* the order it releases it
cleanup_context(c) ==
    [ctx |-> [ctx |-> FALSE, handle |-> FALSE, img |-> NoImage, outfile |-> NULL,
              cinfo |-> [c.cinfo EXCEPT !.created = FALSE]],
     rel |-> (IF c.outfile # NULL THEN <<"outfile">> ELSE <<>>)
             \o (IF c.img # NoImage THEN <<"img">> ELSE <<>>)
             \o (IF c.handle THEN <<"handle">> ELSE <<>>)
             \o (IF c.ctx THEN <<"ctx">> ELSE <<>>)
             \o (IF c.cinfo.created THEN <<"cinfo">> ELSE <<>>)]

\* the cleanup label, the return, and main's count of the call
Cleanup ==
    /\ pc = "c_cleanup"
    /\ LET r == cleanup_context(ctx)
       IN  /\ ctx' = r.ctx
           /\ calls' = SetCur([Release(Cur, r.rel) EXCEPT
                                 !.result = IF conv_success # 0 THEN "true" ELSE "false",
                                 !.after = outFiles])
    /\ files_processed' = IF conv_success # 0 THEN files_processed + 1
                          ELSE files_processed
    /\ pc' = "readdir"
    /\ UNCHANGED <<scan, jpeg_quality, dirp, remaining, entry, input_path,
                   conv_success, success, exitCode, summary>>
    /\ UNCHANGED <<fsVars, env, listing, extVars, run, typed, faultsLeft, startOut>>

(***************************************************************************)
(* The specifications.                                                     *)
(***************************************************************************)
Next ==
    \/ Prompt
    \/ EnsureDirectory
    \/ OpenDir
    \/ ReadDir
    \/ JpegCreate
    \/ HeifAlloc
    \/ HeifRead
    \/ HeifHandle
    \/ HeifDecode
    \/ OpenOutput
    \/ JpegStart
    \/ WriteScanline
    \/ JpegFinish
    \/ Cleanup
    \/ CloseDir
    \/ Summary

Spec == Init /\ [][Next]_vars

(***************************************************************************)
(* The batch run again on the same directories with the same input: the    *)
(* program starts anew, the file system is as the run before left it.      *)
(***************************************************************************)
Restart ==
    /\ pc = "exited"
    /\ run < MaxRuns
    /\ run' = run + 1
    /\ startOut' = [dir |-> outDirExists, files |-> outFiles]
    /\ pc' = "prompt"
    /\ scan' = NoScan
    /\ jpeg_quality' \in Indeterminate
    /\ dirp' = "null"
    /\ remaining' = {}
    /\ entry' = NULL
    /\ input_path' = NULL
    /\ ctx' = ZeroCtx
    /\ conv_success' = 0
    /\ files_processed' = 0
    /\ success' = 0
    /\ exitCode' = 0
    /\ summary' = NoSummary
    /\ env' = NoEnv
    /\ listing' = <<>>
    /\ calls' = <<>>
    /\ UNCHANGED <<fsVars, extVars, typed, faultsLeft>>

InitTwice == InitWith({t \in Typed : t.k = "int"}, 0)

NextTwice == Next \/ Restart

SpecTwice == InitTwice /\ [][NextTwice]_vars

(***************************************************************************)
(* has_heic_extension applied to one file name, as the loop of main        *)
(* applies it to each d_name.                                              *)
(***************************************************************************)
Alphabet == {".", "h", "H", "e", "I", "c", "a"}

ExtNames == UNION {[1..k -> Alphabet] : k \in 1..MaxNameLen} \cup DirNames

InitExt ==
    /\ ProgramStart
    /\ run = 1
    /\ typed = [k |-> "int", v |-> 1]
    /\ outDirExists = FALSE
    /\ outFiles = {}
    /\ startOut = [dir |-> FALSE, files |-> {}]
    /\ photos = <<>>
    /\ faultsLeft = 0
    /\ xname \in ExtNames
    /\ xsel = -1

CheckExtension ==
    /\ xsel = -1
    /\ xsel' = has_heic_extension(xname)
    /\ UNCHANGED <<progVars, fsVars, histVars, xname, run, typed, faultsLeft, startOut>>

NextExt == CheckExtension

SpecExt == InitExt /\ [][NextExt]_vars

(***************************************************************************)
(* The properties.                                                         *)
(***************************************************************************)
InConvert ==
    pc \in {"c_create", "c_alloc", "c_read", "c_handle", "c_decode", "c_fopen",
            "c_start", "c_write", "c_cleanup"}

\* the entries of "Photos" the filter lets through
Matching == {n \in DOMAIN photos : has_heic_extension(n) # 0}

CallNames == [i \in 1..Len(calls) |-> calls[i].name]
Succeeded == {i \in 1..Len(calls) : calls[i].result = "true"}
OutOf(c) == OutputFilename(c.path, output_dir)

\* what was read at the prompt is no number, or a number outside 1..100
QualityRejected == scan.done /\ (scan.ret # 1 \/ jpeg_quality < 1 \/ jpeg_quality > 100)

\* the steps C1 lists: open the decode context, read the container, get the
\* primary image handle, decode, open the output file, encode the rows,
\* finalize
ListedSteps == {"alloc", "read", "handle", "decode", "fopen", "row", "finish"}

\* C1: a call of convert_heic_to_jpg returns true only if every step of it
\* succeeded; a step that fails is the last step the call executes, and the
\* call then returns false to main.
C1_FailureReturnsFalse ==
    \A i \in 1..Len(calls) :
        LET c == calls[i]
        IN  /\ c.result = "true" => \A j \in 1..Len(c.steps) : c.steps[j].ok
            /\ \A j \in 1..Len(c.steps) :
                 (c.steps[j].step \in ListedSteps /\ ~c.steps[j].ok) =>
                     /\ j = Len(c.steps)
                     /\ (~InConvert => c.result = "false")

\* C2: once a call of convert_heic_to_jpg is over, whichever way it ended,
\* what it released is what it acquired, each resource once, in the reverse
\* of the order of acquisition, and the context holds nothing.
C2_ReleasedOnceInReverse ==
    ~InConvert =>
        /\ \A i \in 1..Len(calls) : calls[i].rel = Reverse(calls[i].acq)
        /\ ~ctx.ctx /\ ~ctx.handle /\ ctx.img = NoImage /\ ctx.outfile = NULL
        /\ ~ctx.cinfo.created

\* C3: once the directory is open, the run ends only after the summary line,
\* every matching entry was given to convert_heic_to_jpg exactly once, in the
\* order readdir gave the entries, and every call returned.
C3_BatchNeverInterrupted ==
    (pc = "exited" /\ env.opendir = "ok") =>
        /\ summary.kind # "none"
        /\ CallNames = SelectSeq(listing, LAMBDA n : has_heic_extension(n) # 0)
        /\ \A n \in Matching : Cardinality({i \in 1..Len(calls) : calls[i].name = n}) = 1
        /\ \A i \in 1..Len(calls) : calls[i].result # "running"

\* no call of the environment has failed so far
NoFault == faultsLeft = MaxFaults

\* C4, for the runs in which nothing of the environment fails: the summary
\* line is "No HEIC files found" exactly when no entry matched the filter, and
\* otherwise "Successfully converted N photos" with N the number of calls that
\* returned success.
C4_SummaryLine ==
    (summary.kind # "none" /\ NoFault) =>
        /\ (summary.kind = "nofiles") <=> (Matching = {})
        /\ summary.kind = "converted" => summary.n = Cardinality(Succeeded)

\* C5 as the spec has it, for the runs in which libjpeg reports no error: the
\* exit code is 1 exactly if the quality was rejected, the output directory
\* could not be created or the input directory could not be opened, and a run
\* that printed the summary line exits with 0.
C5_ExitCodeOriginal ==
    (pc = "exited" /\ ~env.fatal) =>
        /\ (exitCode = 1) <=>
              (QualityRejected \/ env.ensure = "failed" \/ env.opendir = "failed")
        /\ summary.kind # "none" => exitCode = 0

\* C5 amended: the exit code is 0 or 1, and it is 1 exactly if the quality was
\* rejected, the output directory could not be created, the input directory
\* could not be opened, libjpeg's error handler ended the process, or closedir
\* failed; a run that printed the summary line exits with 0 exactly if
\* closedir succeeded, whatever the number of conversions.
C5_ExitCode ==
    pc = "exited" =>
        /\ exitCode \in {0, 1}
        /\ (exitCode = 1) <=>
              (QualityRejected \/ env.ensure = "failed" \/ env.opendir = "failed"
               \/ env.fatal \/ env.closedir = "failed")
        /\ summary.kind # "none" => ((exitCode = 0) <=> (env.closedir = "ok"))

C5_Witness ==
    pc = "exited" /\ summary.kind = "nofiles" /\ env.closedir = "failed" /\ exitCode = 1

\* C6: when what was read at the prompt is no number or is outside 1..100, the
\* program has exited with code 1 and has neither looked for nor created the
\* output directory, nor opened or read the input directory, nor called
\* convert_heic_to_jpg; every call of convert_heic_to_jpg has a quality in
\* 1..100.
C6_InvalidQualityStopsEarly ==
    /\ QualityRejected =>
          /\ pc = "exited" /\ exitCode = 1
          /\ env.ensure = "unset" /\ outDirExists = startOut.dir
          /\ outFiles = startOut.files
          /\ env.opendir = "unset" /\ dirp = "null" /\ listing = <<>>
          /\ calls = <<>>
    /\ \A i \in 1..Len(calls) : calls[i].quality \in 1..100

C6_Witness ==
    pc = "exited" /\ scan.ret = 1 /\ jpeg_quality = 101 /\ ~outDirExists

\* the name ends in ".heic", whatever the case of the letters
EndsInDotHeic(n) ==
    /\ Len(n) >= 5
    /\ n[Len(n) - 4] = "."
    /\ n[Len(n) - 3] \in {"h", "H"}
    /\ n[Len(n) - 2] \in {"e", "E"}
    /\ n[Len(n) - 1] \in {"i", "I"}
    /\ n[Len(n)] \in {"c", "C"}

\* C7: a name is selected exactly if it ends in ".heic" compared without
\* regard to case; a name without '.' is never selected.
C7_SelectedIffHeicSuffix ==
    xsel # -1 =>
        /\ (xsel # 0) <=> EndsInDotHeic(xname)
        /\ (\A i \in 1..Len(xname) : xname[i] # ".") => xsel = 0

C7_Witness == xsel = 1 /\ xname = N_bheic

\* the call got as far as reading the file and the read failed
ReadFailed(c) == \E j \in 1..Len(c.steps) : c.steps[j] = [step |-> "read", ok |-> FALSE]

\* C8 as the spec has it: a call that found its file to be no HEIC container
\* returned false, and no file of its output name exists once it has returned.
C8_NoOutputFileOriginal ==
    \A i \in 1..Len(calls) :
        (photos[calls[i].name] = "bad" /\ ReadFailed(calls[i])
         /\ calls[i].result # "running") =>
            /\ calls[i].result = "false"
            /\ OutOf(calls[i]) \notin Paths(calls[i].after)

\* C8 amended: a call on a file that is no HEIC container never returns true
\* (it returns false if it returns), and it leaves every file of the output
\* directory as it was: none created, none changed, none removed.
C8_NoOutputFileTouched ==
    \A i \in 1..Len(calls) :
        photos[calls[i].name] = "bad" =>
            /\ calls[i].result # "true"
            /\ calls[i].result = "running" => (i = Len(calls) /\ outFiles = calls[i].before)
            /\ calls[i].result # "running" => calls[i].after = calls[i].before

C8_Witness ==
    \E i \in 1..Len(calls) :
        /\ photos[calls[i].name] = "bad"
        /\ ReadFailed(calls[i])
        /\ calls[i].result = "false"
        /\ OutOf(calls[i]) \in Paths(calls[i].after)

\* C9: after the second run of the batch on the same input directory, with
\* the same quality and the same output directory, every file of the output
\* directory is what it was after the first run.
C9_SecondRunIdentical ==
    (run = 2 /\ pc = "exited" /\ summary.kind # "none") => outFiles = startOut.files

\* C10, for the runs in which nothing of the environment fails: the
\* successful calls of one batch have pairwise different output paths, so none
\* overwrites what another wrote, and a batch that started from an empty
\* output directory leaves as many files as the success count it reports.
C10_DistinctOutputs ==
    (pc = "exited" /\ summary.kind # "none" /\ NoFault) =>
        /\ \A i, j \in Succeeded : i # j => OutOf(calls[i]) # OutOf(calls[j])
        /\ startOut.files = {} => Cardinality(Paths(outFiles)) = files_processed

(***************************************************************************)
(* What holds of the paths on which libjpeg reports no error, and of       *)
(* directories without two entries of the same output path.                *)
(***************************************************************************)
AllSteps == <<"alloc", "read", "handle", "decode", "fopen", "start">>

\* a call that returned true ran every step, each with success; a failure of
\* a step the code tests itself is the call's last step and the call returns
\* false
ReturnPathsReportFailure ==
    \A i \in 1..Len(calls) :
        LET c == calls[i]
        IN  /\ c.result = "true" =>
                 /\ \A j \in 1..Len(c.steps) : c.steps[j].ok
                 /\ SubSeq([j \in 1..Len(c.steps) |-> c.steps[j].step], 1, 6) = AllSteps
                 /\ c.steps[Len(c.steps)].step = "finish"
                 /\ Cardinality({j \in 1..Len(c.steps) : c.steps[j].step = "row"})
                      = Raster(photos[c.name]).height
            /\ \A j \in 1..Len(c.steps) :
                 (c.steps[j].step \in {"alloc", "read", "handle", "decode", "fopen"}
                  /\ ~c.steps[j].ok) =>
                     /\ j = Len(c.steps)
                     /\ (~InConvert => c.result = "false")

\* a call that returned released what it acquired, in reverse order, and
\* main never holds a resource between two calls
ReturnPathsRelease ==
    /\ \A i \in 1..Len(calls) :
          calls[i].result # "running" =>
              /\ calls[i].rel = Reverse(calls[i].acq)
              /\ Cardinality(Range(calls[i].acq)) = Len(calls[i].acq)
    /\ (~InConvert /\ ~env.fatal) =>
          /\ ~ctx.ctx /\ ~ctx.handle /\ ctx.img = NoImage /\ ctx.outfile = NULL
          /\ ~ctx.cinfo.created

\* a run in which libjpeg reports no error converts every matching entry
\* once, in readdir's order, and prints the summary
BatchCompletesWithoutJpegError ==
    (pc = "exited" /\ env.opendir = "ok" /\ ~env.fatal) =>
        /\ summary.kind # "none"
        /\ CallNames = SelectSeq(listing, LAMBDA n : has_heic_extension(n) # 0)
        /\ \A n \in Matching : Cardinality({i \in 1..Len(calls) : calls[i].name = n}) = 1
        /\ \A i \in 1..Len(calls) : calls[i].result # "running"

\* the count printed is the number of calls that returned true, and "No HEIC
\* files found" is printed exactly when that number is 0
SummaryCountsSuccesses ==
    summary.kind # "none" =>
        /\ (summary.kind = "nofiles") <=> (Succeeded = {})
        /\ summary.kind = "converted" => summary.n = Cardinality(Succeeded)

NoCollision ==
    \A m, n \in Matching :
        m # n => OutputFilename(InputPath(m), output_dir) # OutputFilename(InputPath(n), output_dir)

\* without two entries of the same output path a second run leaves the
\* output directory as the first left it
SecondRunIdenticalWithoutCollision ==
    (run = 2 /\ pc = "exited" /\ summary.kind # "none" /\ NoCollision)
        => outFiles = startOut.files

\* without two entries of the same output path the number of files left in
\* an output directory that was empty is the success count
FileCountWithoutCollision ==
    (pc = "exited" /\ summary.kind # "none" /\ NoCollision /\ startOut.files = {})
        => Cardinality(Paths(outFiles)) = files_processed

====
